---- MODULE Spec2Model ----
(***************************************************************************)
(* A model of dca_strategy.py: the interactive driver (main), the three    *)
(* DCA simulators, the ranked comparison table and the two bar charts.     *)
(*                                                                         *)
(* Numbers.  Prices, quantities and averages are IEEE-754 binary64 values  *)
(* in the program (pandas float64 columns).  They are modelled exactly:    *)
(* a finite positive double is a record [k |-> "num", m, e] standing for   *)
(* m * 2^e, where m is an odd natural number of at most 53 bits written    *)
(* as a sequence of bits, most significant first.  Every operation rounds  *)
(* to nearest, ties to even, as the hardware does.  Only the values the    *)
(* program can produce from positive prices are covered: NaN, +0 and the   *)
(* positive normal numbers (no overflow, no underflow).                    *)
(*                                                                         *)
(* Time.  A timestamp is a number of hours: 24 * (proleptic Gregorian      *)
(* ordinal of the day) + hour of day.  Rows lie on the hour.               *)
(***************************************************************************)
EXTENDS Integers, Sequences, FiniteSets, TLC

----------------------------------------------------------------------------
(* Natural numbers of any size, as bit sequences (most significant first,  *)
(* no leading zero; <<>> is 0).                                            *)

Max(a, b) == IF a >= b THEN a ELSE b
Min(a, b) == IF a <= b THEN a ELSE b

Zeros(n) == [i \in 1..n |-> 0]

\* a without its leading zeros
BStrip(a) ==
    IF \A i \in 1..Len(a) : a[i] = 0 THEN <<>>
    ELSE LET f == CHOOSE i \in 1..Len(a) : a[i] = 1 /\ \A j \in 1..(i - 1) : a[j] = 0
         IN  SubSeq(a, f, Len(a))

RECURSIVE BFromInt(_)
BFromInt(n) == IF n = 0 THEN <<>> ELSE Append(BFromInt(n \div 2), n % 2)

\* bit i of a, counted from the least significant one (i = 0)
BBit(a, i) == IF i < Len(a) THEN a[Len(a) - i] ELSE 0

\* -1, 0 or 1 as a < b, a = b, a > b
BCmp(a, b) ==
    IF Len(a) > Len(b) THEN 1
    ELSE IF Len(a) < Len(b) THEN -1
    ELSE IF \A i \in 1..Len(a) : a[i] = b[i] THEN 0
    ELSE LET f == CHOOSE i \in 1..Len(a) : a[i] # b[i] /\ \A j \in 1..(i - 1) : a[j] = b[j]
         IN  IF a[f] > b[f] THEN 1 ELSE -1

\* s in reverse order
Rev(s) == [i \in 1..Len(s) |-> s[Len(s) + 1 - i]]

\* bits lo..hi of a + b + c (c the carry into bit lo), least significant
\* first, and the carry out; the range is halved at each call
RECURSIVE BAddAt(_, _, _, _, _)
BAddAt(a, b, lo, hi, c) ==
    IF lo = hi
    THEN LET s == BBit(a, lo) + BBit(b, lo) + c
         IN  [bits |-> <<s % 2>>, c |-> s \div 2]
    ELSE LET mid == (lo + hi) \div 2
             L   == BAddAt(a, b, lo, mid, c)
             H   == BAddAt(a, b, mid + 1, hi, L.c)
         IN  [bits |-> L.bits \o H.bits, c |-> H.c]

BAdd(a, b) ==
    IF a = <<>> THEN b
    ELSE IF b = <<>> THEN a
    ELSE LET r == BAddAt(a, b, 0, Max(Len(a), Len(b)) - 1, 0)
         IN  BStrip(<<r.c>> \o Rev(r.bits))

\* bits lo..hi of a - b - c (c the borrow from bit lo), least significant
\* first, and the borrow out
RECURSIVE BSubAt(_, _, _, _, _)
BSubAt(a, b, lo, hi, c) ==
    IF lo = hi
    THEN LET s == BBit(a, lo) - BBit(b, lo) - c
         IN  [bits |-> <<s % 2>>, c |-> IF s < 0 THEN 1 ELSE 0]
    ELSE LET mid == (lo + hi) \div 2
             L   == BSubAt(a, b, lo, mid, c)
             H   == BSubAt(a, b, mid + 1, hi, L.c)
         IN  [bits |-> L.bits \o H.bits, c |-> H.c]

\* a - b, for a >= b
BSub(a, b) ==
    IF b = <<>> THEN a
    ELSE BStrip(Rev(BSubAt(a, b, 0, Len(a) - 1, 0).bits) \o <<>>)

\* a * 2^n
BShl(a, n) == IF a = <<>> \/ n <= 0 THEN a ELSE a \o Zeros(n)

\* a times the bits lo..hi of b
RECURSIVE BMulAt(_, _, _, _)
BMulAt(a, b, lo, hi) ==
    IF lo = hi THEN (IF BBit(b, lo) = 1 THEN BShl(a, lo) ELSE <<>>)
    ELSE LET mid == (lo + hi) \div 2
         IN  BAdd(BMulAt(a, b, lo, mid), BMulAt(a, b, mid + 1, hi))

BMul(a, b) ==
    IF a = <<>> \/ b = <<>> THEN <<>>
    ELSE IF Len(a) < Len(b) THEN BMulAt(b, a, 0, Len(a) - 1)
    ELSE BMulAt(a, b, 0, Len(b) - 1)

\* One step of restoring long division: bring down bit i of the dividend d
\* (followed by padding zeros) into the remainder, subtract the divisor when
\* it fits.  Once the remainder is 0 and only padding is left, the remaining
\* quotient bits are zeros and are counted in left instead.
BDivStep(d, by, i, st) ==
    IF i > Len(d) /\ st.rem = <<>> THEN [st EXCEPT !.left = @ + 1]
    ELSE LET bit == IF i <= Len(d) THEN d[i] ELSE 0
             r2  == IF st.rem = <<>> /\ bit = 0 THEN <<>> ELSE Append(st.rem, bit)
         IN  IF BCmp(r2, by) >= 0
             THEN [q |-> Append(st.q, 1), rem |-> BSub(r2, by), left |-> 0]
             ELSE [q |-> Append(st.q, 0), rem |-> r2, left |-> 0]

\* steps lo..hi of the long division, halving the range at each call
RECURSIVE BDivAt(_, _, _, _, _)
BDivAt(d, by, lo, hi, st) ==
    IF lo > hi THEN st
    ELSE IF lo = hi THEN BDivStep(d, by, lo, st)
    ELSE LET mid == (lo + hi) \div 2
             s1  == BDivAt(d, by, lo, mid, st)
         IN  IF s1.left > 0 THEN [s1 EXCEPT !.left = @ + (hi - mid)]
             ELSE BDivAt(d, by, mid + 1, hi, s1)

\* floor(d * 2^(pad - left) / by) as q, with its remainder, for d, by > 0.
\* The first Len(by) - 1 bits of the dividend cannot hold the divisor: the
\* division starts with them as the remainder.
BDiv(d, pad, by) ==
    LET n    == Len(d) + pad
        skip == Min(n, Len(by) - 1)
        rem0 == IF skip <= Len(d) THEN SubSeq(d, 1, skip) ELSE d \o Zeros(skip - Len(d))
        r    == BDivAt(d, by, skip + 1, n, [q |-> <<>>, rem |-> rem0, left |-> 0])
    IN  [q |-> BStrip(r.q), rem |-> r.rem, left |-> r.left]

----------------------------------------------------------------------------
(* IEEE-754 binary64, round to nearest, ties to even.                      *)

\* the significand of a float64 has 53 bits
Precision == 53

NaN   == [k |-> "nan",  m |-> <<>>, e |-> 0]
FZero == [k |-> "zero", m |-> <<>>, e |-> 0]
FInf  == [k |-> "inf",  m |-> <<>>, e |-> 0]

IsNaN(x) == x.k = "nan"
\* how many zeros a nonzero a ends with
TrailingZeros(a) ==
    CHOOSE t \in 0..(Len(a) - 1) :
        a[Len(a) - t] = 1 /\ \A j \in (Len(a) - t + 1)..Len(a) : a[j] = 0

\* the double of value bits * 2^e, for bits of at most Precision significant bits
Canon(kind, bits, e) ==
    IF bits = <<>> THEN FZero
    ELSE LET tz == TrailingZeros(bits)
         IN  [k |-> kind, m |-> SubSeq(bits, 1, Len(bits) - tz), e |-> e + tz]

\* the double nearest to bits * 2^e (plus a nonzero fraction of 2^e when
\* sticky), ties to even
FRound(kind, bits, e, sticky) ==
    LET L == Len(bits) IN
    IF L <= Precision THEN Canon(kind, bits, e)
    ELSE LET keep  == SubSeq(bits, 1, Precision)
             guard == bits[Precision + 1]
             rest  == sticky \/ \E i \in (Precision + 2)..L : bits[i] = 1
             up    == guard = 1 /\ (rest \/ keep[Precision] = 1)
         IN  Canon(kind, IF up THEN BAdd(keep, <<1>>) ELSE keep, e + L - Precision)

\* int -> float64 (exact below 2^53)
FFromInt(n) ==
    IF n < 0 THEN Canon("neg", BFromInt(-n), 0) ELSE Canon("num", BFromInt(n), 0)

\* the sign of a product or quotient
SignOf(x, y) == IF x.k = y.k THEN "num" ELSE "neg"

\* x + y, for operands that are not negative
FAdd(x, y) ==
    IF IsNaN(x) \/ IsNaN(y) THEN NaN
    ELSE IF x.k = "inf" \/ y.k = "inf" THEN FInf
    ELSE IF x.k = "zero" THEN y
    ELSE IF y.k = "zero" THEN x
    ELSE LET e == Min(x.e, y.e)
         IN  FRound("num", BAdd(BShl(x.m, x.e - e), BShl(y.m, y.e - e)), e, FALSE)

\* x - y, for operands that are not negative
FSub(x, y) ==
    IF IsNaN(x) \/ IsNaN(y) THEN NaN
    ELSE IF x.k = "inf" THEN (IF y.k = "inf" THEN NaN ELSE FInf)
    ELSE IF y.k = "zero" THEN x
    ELSE IF x.k = "zero" THEN [y EXCEPT !.k = "neg"]
    ELSE LET e  == Min(x.e, y.e)
             a  == BShl(x.m, x.e - e)
             b  == BShl(y.m, y.e - e)
         IN  IF BCmp(a, b) >= 0
             THEN FRound("num", BSub(a, b), e, FALSE)
             ELSE FRound("neg", BSub(b, a), e, FALSE)

FMul(x, y) ==
    IF IsNaN(x) \/ IsNaN(y) THEN NaN
    ELSE IF x.k = "inf" \/ y.k = "inf"
         THEN (IF x.k = "zero" \/ y.k = "zero" THEN NaN ELSE FInf)
    ELSE IF x.k = "zero" \/ y.k = "zero" THEN FZero
    ELSE FRound(SignOf(x, y), BMul(x.m, y.m), x.e + y.e, FALSE)

FDiv(x, y) ==
    IF IsNaN(x) \/ IsNaN(y) THEN NaN
    ELSE IF x.k = "inf" THEN (IF y.k = "inf" THEN NaN ELSE FInf)
    ELSE IF y.k = "inf" THEN FZero
    ELSE IF y.k = "zero" THEN (IF x.k = "zero" THEN NaN ELSE FInf)
    ELSE IF x.k = "zero" THEN FZero
    ELSE LET pad == Precision + 2 + Len(y.m) - Len(x.m)
             r   == BDiv(x.m, pad, y.m)
         IN  FRound(SignOf(x, y), r.q, x.e - y.e - pad + r.left, r.rem # <<>>)

\* the order of the kinds of number: negative < zero < positive < inf
KindRank(x) == CASE x.k = "neg" -> 0 [] x.k = "zero" -> 1 [] x.k = "num" -> 2 [] OTHER -> 3

\* |x| < |y|, for finite nonzero x and y
MagLt(x, y) ==
    LET px == Len(x.m) + x.e
        py == Len(y.m) + y.e
        e  == Min(x.e, y.e)
    IN  IF px # py THEN px < py
        ELSE BCmp(BShl(x.m, x.e - e), BShl(y.m, y.e - e)) < 0

\* x < y; every comparison with NaN is false
FLt(x, y) ==
    IF IsNaN(x) \/ IsNaN(y) THEN FALSE
    ELSE IF KindRank(x) # KindRank(y) THEN KindRank(x) < KindRank(y)
    ELSE IF x.k = "num" THEN MagLt(x, y)
    ELSE IF x.k = "neg" THEN MagLt(y, x)
    ELSE FALSE

FLe(x, y) == ~IsNaN(x) /\ ~IsNaN(y) /\ ~FLt(y, x)

----------------------------------------------------------------------------
(* Dates and timestamps.                                                   *)

IsLeap(y) == y % 4 = 0 /\ (y % 100 # 0 \/ y % 400 = 0)

DaysInMonth(y, m) ==
    IF m = 2 THEN (IF IsLeap(y) THEN 29 ELSE 28)
    ELSE IF m \in {4, 6, 9, 11} THEN 30 ELSE 31

RECURSIVE DaysBeforeMonth(_, _)
DaysBeforeMonth(y, m) ==
    IF m = 1 THEN 0 ELSE DaysBeforeMonth(y, m - 1) + DaysInMonth(y, m - 1)

\* the proleptic Gregorian ordinal of a date: 0001-01-01 is day 1, a Monday
Ordinal(y, m, d) ==
    365 * (y - 1) + (y - 1) \div 4 - (y - 1) \div 100 + (y - 1) \div 400
        + DaysBeforeMonth(y, m) + d

HoursPerDay == 24

\* the timestamp of hour h of a date
Ts(y, m, d, h) == Ordinal(y, m, d) * HoursPerDay + h

\* DatetimeIndex.hour and DatetimeIndex.dayofweek (Monday is 0)
HourOf(ts) == ts % HoursPerDay
DayOfWeek(ts) == ((ts \div HoursPerDay) + 6) % 7

\* Timestamp.date(): the day a timestamp lies in
DateOf(ts) == ts \div HoursPerDay

Digits == <<"0", "1", "2", "3", "4", "5", "6", "7", "8", "9">>

CharAt(s, i) == SubSeq(s, i, i)
IsDigit(c) == \E i \in 1..10 : Digits[i] = c
DigitVal(c) == (CHOOSE i \in 1..10 : Digits[i] = c) - 1

\* the number written by the digits s[lo..hi]
RECURSIVE NumAt(_, _, _)
NumAt(s, lo, hi) ==
    IF hi < lo THEN 0 ELSE 10 * NumAt(s, lo, hi - 1) + DigitVal(CharAt(s, hi))

\* datetime.strptime(s, "%Y-%m-%d"): four digits of year, a month of one or
\* two digits, a day of one or two digits, nothing else; the month in 1..12
\* and the day one of that month.  ok is FALSE where strptime raises
\* ValueError; otherwise ts is midnight of the date.
Strptime(s) ==
    LET n      == Len(s)
        dashes == {i \in 1..n : CharAt(s, i) = "-"}
        p      == IF dashes \ {5} = {} THEN 0 ELSE CHOOSE i \in dashes : i # 5
        shape  == /\ n \in 8..10
                  /\ Cardinality(dashes) = 2 /\ 5 \in dashes
                  /\ p \in {7, 8} /\ n - p \in {1, 2}
                  /\ \A i \in (1..n) \ dashes : IsDigit(CharAt(s, i))
        y      == NumAt(s, 1, 4)
        m      == NumAt(s, 6, p - 1)
        d      == NumAt(s, p + 1, n)
    IN  IF shape /\ y >= 1 /\ m \in 1..12 /\ d >= 1 /\ d <= DaysInMonth(y, m)
        THEN [ok |-> TRUE, ts |-> Ts(y, m, d, 0)]
        ELSE [ok |-> FALSE, ts |-> 0]

----------------------------------------------------------------------------
(* The CSV files the program is run on.  A CSV row is a timestamp text, given *)
(* by its fields <<year, month, day, hour>>, and an Open price.              *)

CsvRow(day, hour, open) == [Timestamp |-> <<2024, 1, day, hour>>, Open |-> open]

\* 48 consecutive hours from 2024-01-01 00:00 (a Monday), every Open 100
Csv48h == [i \in 1..48 |-> CsvRow(1 + (i - 1) \div 24, (i - 1) % 24, 100)]

\* three midnights and two other hours, prices that do not divide 100
CsvVaried ==
    << CsvRow(1, 0, 10), CsvRow(1, 1, 20), CsvRow(2, 0, 20), CsvRow(2, 1, 30),
       CsvRow(3, 0, 30) >>

\* the first row is not at midnight
CsvLateStart ==
    << CsvRow(1, 5, 30), CsvRow(2, 0, 10), CsvRow(2, 6, 20), CsvRow(3, 0, 20),
       CsvRow(3, 5, 10) >>

\* a gap: no row at all on 2024-01-02
CsvGap == << CsvRow(1, 0, 10), CsvRow(1, 12, 30), CsvRow(3, 0, 20) >>

\* two Mondays, a week apart
CsvTwoWeeks == << CsvRow(1, 0, 10), CsvRow(2, 0, 20), CsvRow(8, 0, 30) >>

CsvFiles == {Csv48h, CsvVaried, CsvLateStart, CsvGap, CsvTwoWeeks}

\* the days of January 2024 the user may type in full
MaxDay == 3

\* what the user may type at a prompt: dates before, in and after the data,
\* a date without zero padding, dates that do not exist, other text, nothing
Inputs ==
    {"2024-01-0" \o ToString(d) : d \in 1..MaxDay}
        \cup { "2024-1-2", "2024-01-08", "2023-12-31", "2024-13-40", "2024-02-30",
               "01/02/2024", "" }

----------------------------------------------------------------------------
(* The data loader and the simulators.                                     *)

\* prepare_data: the rows of the file, indexed by the parsed Timestamp
prepare_data(file) ==
    [i \in 1..Len(file) |->
        [Timestamp |-> Ts(file[i].Timestamp[1], file[i].Timestamp[2],
                          file[i].Timestamp[3], file[i].Timestamp[4]),
         Open      |-> FFromInt(file[i].Open)]]

\* Series.sum() of a float64 column, in row order; 0.0 for no rows
RECURSIVE SumFloat(_, _)
SumFloat(col, n) == IF n = 0 THEN FZero ELSE FAdd(SumFloat(col, n - 1), col[n])

\* WithPurchaseColumns with the quotient upside down
WithPurchaseColumns_Inverted(rows, amount) ==
    [i \in 1..Len(rows) |->
        [Timestamp  |-> rows[i].Timestamp,
         Open       |-> rows[i].Open,
         btc_bought |-> FDiv(rows[i].Open, FFromInt(amount)),
         cost       |-> amount]]

\* purchases['btc_bought'] = amount / purchases['Open']; purchases['cost'] = amount
WithPurchaseColumns(rows, amount) ==
    [i \in 1..Len(rows) |->
        [Timestamp  |-> rows[i].Timestamp,
         Open       |-> rows[i].Open,
         btc_bought |-> FDiv(FFromInt(amount), rows[i].Open),
         cost       |-> amount]]

\* AvgPrice with the cost of one purchase in place of the sum of the column
AvgPrice_OneCost(purchases) ==
    LET cost_sum == IF purchases = <<>> THEN 0 ELSE purchases[1].cost
        btc      == [i \in 1..Len(purchases) |-> purchases[i].btc_bought]
    IN  FDiv(FFromInt(cost_sum), SumFloat(btc, Len(btc)))

\* purchases['cost'].sum() / purchases['btc_bought'].sum(): the cost column
\* is int64, its sum is amount * len; 0 / 0.0 is nan
AvgPrice(purchases) ==
    LET cost_sum == IF purchases = <<>> THEN 0 ELSE purchases[1].cost * Len(purchases)
        btc      == [i \in 1..Len(purchases) |-> purchases[i].btc_bought]
    IN  FDiv(FFromInt(cost_sum), SumFloat(btc, Len(btc)))

Simulated(rows, amount) ==
    LET purchases == WithPurchaseColumns(rows, amount) \o <<>>
    IN  [purchases |-> purchases, avg_price |-> AvgPrice(purchases)]

\* data.resample('H').first().dropna(): the first row of every hour that has one
ResampleFirst(data) ==
    LET keep == {i \in 1..Len(data) :
                    \A j \in 1..(i - 1) : data[j].Timestamp # data[i].Timestamp}
    IN  [k \in 1..Cardinality(keep) |->
            data[CHOOSE i \in keep : Cardinality({j \in keep : j < i}) = k - 1]] \o <<>>

simulate_hourly_dca(data, amount) == Simulated(ResampleFirst(data), amount)

simulate_daily_dca(data, hour, amount) ==
    Simulated(SelectSeq(data, LAMBDA r : HourOf(r.Timestamp) = hour), amount)

simulate_weekly_dca(data, weekday, hour, amount) ==
    Simulated(SelectSeq(data, LAMBDA r : /\ DayOfWeek(r.Timestamp) = weekday
                                         /\ HourOf(r.Timestamp) = hour), amount)

----------------------------------------------------------------------------
(* The ranked table and the bar charts.                                    *)

DayNames == <<"Monday", "Tuesday", "Wednesday", "Thursday", "Friday", "Saturday", "Sunday">>

WeeklyLabel(day, hour) == "Weekly " \o DayNames[day + 1] \o " " \o ToString(hour) \o ":00"
DailyLabel(hour) == "Daily " \o ToString(hour) \o ":00"
HourlyLabel == "Hourly"

\* str.startswith
StartsWith(s, prefix) ==
    Len(s) >= Len(prefix) /\ SubSeq(s, 1, Len(prefix)) = prefix

\* SeriesMin as numpy's min: NaN as soon as one value is NaN
SeriesMin_NoSkip(col) ==
    LET finite == {i \in 1..Len(col) : ~IsNaN(col[i])}
    IN  IF finite # 1..Len(col) \/ finite = {} THEN NaN
        ELSE col[CHOOSE i \in finite : \A j \in finite : ~FLt(col[j], col[i])]

\* Series.min(): the least value that is not NaN; NaN when there is none
SeriesMin(col) ==
    LET finite == {i \in 1..Len(col) : ~IsNaN(col[i])}
    IN  IF finite = {} THEN NaN
        ELSE col[CHOOSE i \in finite : \A j \in finite : ~FLt(col[j], col[i])]

\* ((x - best) / best) * 100
Deviation(x, best) == FMul(FDiv(FSub(x, best), best), FFromInt(100))

\* how sort_values may order rows of equal Avg_Price: the default quicksort
\* is not stable
TieOrders == {"first", "last"}

\* SortValues that leaves the rows as they are
SortValues_Unsorted(rows, tie) == rows

\* DataFrame.sort_values(by='Avg_Price'): ascending, the NaN rows last in
\* their original order
SortValues(rows, tie) ==
    LET n      == Len(rows)
        finite == {i \in 1..n : ~IsNaN(rows[i].Avg_Price)}
        nan    == (1..n) \ finite
        Before(i, j) ==
            IF rows[i].Avg_Price = rows[j].Avg_Price
            THEN (IF tie = "first" THEN i < j ELSE i > j)
            ELSE FLt(rows[i].Avg_Price, rows[j].Avg_Price)
        rank   == [i \in 1..n |->
                     IF i \in finite
                     THEN 1 + Cardinality({j \in finite : Before(j, i)})
                     ELSE 1 + Cardinality(finite)
                            + Cardinality({j \in nan : j < i})] \o <<>>
    IN  [r \in 1..n |-> rows[CHOOSE i \in 1..n : rank[i] = r]] \o <<>>

\* the Relative_Deviation column, from the least Avg_Price of the rows
WithDeviation(rows) ==
    LET best == SeriesMin([i \in 1..Len(rows) |-> rows[i].Avg_Price] \o <<>>)
    IN  [i \in 1..Len(rows) |->
            [Strategy           |-> rows[i].Strategy,
             Avg_Price          |-> rows[i].Avg_Price,
             Relative_Deviation |-> Deviation(rows[i].Avg_Price, best)]] \o <<>>

TopN == 30

\* DataFrame.head(n)
Head_(rows, n) == SubSeq(rows, 1, Min(n, Len(rows)))

\* visualize_bar_chart: the rows the bars are drawn from
visualize_bar_chart(results) == WithDeviation(Head_(results, TopN))

\* ExcludeWeekly without the negation
ExcludeWeekly_Inverted(results) == SelectSeq(results, LAMBDA r : StartsWith(r.Strategy, "Weekly"))

\* results[~results['Strategy'].str.startswith('Weekly')]
ExcludeWeekly(results) == SelectSeq(results, LAMBDA r : ~StartsWith(r.Strategy, "Weekly"))

----------------------------------------------------------------------------
(* main                                                                    *)

VARIABLES
    pc,               \* where main is
    data,             \* the loaded price series
    min_date,         \* data.index.min()
    max_date,         \* data.index.max()
    typed,            \* the two lines read by the latest pair of prompts
    start_date,       \* main's start_date: the typed text, or its parsed date
    end_date,         \* main's end_date, likewise
    printed,          \* what the latest attempt printed ("" for nothing)
    filtered_data,    \* data.loc[start_date:end_date]
    results,          \* the list of {Strategy, Avg_Price}
    results_df,       \* the ranked table
    chart_inputs,     \* the tables handed to visualize_bar_chart, in order
    charts,           \* the rows each bar chart was drawn from, in order
    sim               \* the latest direct call of a simulator

vars == << pc, data, min_date, max_date, typed, start_date, end_date, printed,
           filtered_data, results, results_df, chart_inputs, charts, sim >>

RangeMessage ==
    "Please ensure the dates are within the available range and the start date is before the end date."
FormatMessage == "Invalid date format. Please enter dates in YYYY-MM-DD format."

\* a value of start_date or end_date: a str until strptime has replaced it
Text(s) == [parsed |-> FALSE, text |-> s, ts |-> 0]
Date(ts) == [parsed |-> TRUE, text |-> "", ts |-> ts]

NoSim == [fn |-> "", amount |-> 0, rows |-> <<>>, avg_price |-> NaN]

\* the least and the greatest of the timestamps of a non-empty table
IndexMin(rows) ==
    rows[CHOOSE i \in 1..Len(rows) : \A j \in 1..Len(rows) : rows[i].Timestamp <= rows[j].Timestamp].Timestamp
IndexMax(rows) ==
    rows[CHOOSE i \in 1..Len(rows) : \A j \in 1..Len(rows) : rows[i].Timestamp >= rows[j].Timestamp].Timestamp

\* main up to the first prompt: the file is loaded
Init ==
    /\ \E file \in CsvFiles :
          /\ data = prepare_data(file) \o <<>>
          /\ min_date = IndexMin(prepare_data(file))
          /\ max_date = IndexMax(prepare_data(file))
    /\ pc = "AwaitingValidInput"
    /\ typed = <<"", "">>
    /\ start_date = Text("")
    /\ end_date = Text("")
    /\ printed = ""
    /\ filtered_data = <<>>
    /\ results = <<>>
    /\ results_df = <<>>
    /\ chart_inputs = <<>>
    /\ charts = <<>>
    /\ sim = NoSim

\* InRange without its last conjunct
InRange_Unordered(s, e) ==
    /\ min_date <= s /\ s <= max_date
    /\ min_date <= e /\ e <= max_date

\* InRange without the upper limits
InRange_NoMax(s, e) ==
    /\ min_date <= s
    /\ min_date <= e
    /\ s <= e

\* the test of line 137
InRange(s, e) ==
    /\ min_date <= s /\ s <= max_date
    /\ min_date <= e /\ e <= max_date
    /\ s <= e

\* One pass of the while loop: the user types s and e at the two prompts.
Attempt(s, e) ==
    LET ps == Strptime(s)
        pe == Strptime(e)
    IN  /\ pc = "AwaitingValidInput"
        /\ typed' = <<s, e>>
        /\ IF ~ps.ok
           THEN /\ start_date' = Text(s)
                /\ end_date' = Text(e)
                /\ printed' = FormatMessage
                /\ pc' = "AwaitingValidInput"
           ELSE IF ~pe.ok
           THEN /\ start_date' = Date(ps.ts)
                /\ end_date' = Text(e)
                /\ printed' = FormatMessage
                /\ pc' = "AwaitingValidInput"
           ELSE /\ start_date' = Date(ps.ts)
                /\ end_date' = Date(pe.ts)
                /\ IF InRange(ps.ts, pe.ts)
                   THEN printed' = "" /\ pc' = "Ready"
                   ELSE printed' = RangeMessage /\ pc' = "AwaitingValidInput"
        /\ UNCHANGED << data, min_date, max_date, filtered_data, results,
                        results_df, chart_inputs, charts, sim >>

\* Loc without the row at the end of the slice
Loc_HalfOpen(rows, first, last) ==
    SelectSeq(rows, LAMBDA r : first <= r.Timestamp /\ r.Timestamp < last)

\* data.loc[start_date:end_date]: the rows from start_date to end_date,
\* both included
Loc(rows, first, last) ==
    SelectSeq(rows, LAMBDA r : first <= r.Timestamp /\ r.Timestamp <= last)

\* Filter with the slice running to the last hour of the end date
Filter_WholeEndDay ==
    /\ pc = "Ready"
    /\ filtered_data' = Loc(data, start_date.ts, end_date.ts + HoursPerDay - 1)
    /\ pc' = "Weekly"
    /\ UNCHANGED << data, min_date, max_date, typed, start_date, end_date, printed,
                    results, results_df, chart_inputs, charts, sim >>

Filter ==
    /\ pc = "Ready"
    /\ filtered_data' = Loc(data, start_date.ts, end_date.ts)
    /\ pc' = "Weekly"
    /\ UNCHANGED << data, min_date, max_date, typed, start_date, end_date, printed,
                    results, results_df, chart_inputs, charts, sim >>

Amount == 100

\* range(7) x range(24), range(24)
Weekdays == 0..6
\* Hours without the last hour of the day
Hours_Short == 0..22

Hours == 0..23

\* the loop of lines 151-157
CompareWeekly ==
    /\ pc = "Weekly"
    /\ results' = results \o
          [i \in 1..(Cardinality(Weekdays) * Cardinality(Hours)) |->
              LET day  == (i - 1) \div Cardinality(Hours)
                  hour == (i - 1) % Cardinality(Hours)
              IN  [Strategy  |-> WeeklyLabel(day, hour),
                   Avg_Price |-> simulate_weekly_dca(filtered_data, day, hour, Amount).avg_price]]
    /\ pc' = "Daily"
    /\ UNCHANGED << data, min_date, max_date, typed, start_date, end_date, printed,
                    filtered_data, results_df, chart_inputs, charts, sim >>

\* the loop of lines 160-165
CompareDaily ==
    /\ pc = "Daily"
    /\ results' = results \o
          [i \in 1..Cardinality(Hours) |->
              [Strategy  |-> DailyLabel(i - 1),
               Avg_Price |-> simulate_daily_dca(filtered_data, i - 1, Amount).avg_price]]
    /\ pc' = "Hourly"
    /\ UNCHANGED << data, min_date, max_date, typed, start_date, end_date, printed,
                    filtered_data, results_df, chart_inputs, charts, sim >>

\* lines 168-169
CompareHourly ==
    /\ pc = "Hourly"
    /\ results' = Append(results,
          [Strategy  |-> HourlyLabel,
           Avg_Price |-> simulate_hourly_dca(filtered_data, Amount).avg_price])
    /\ pc' = "Compared"
    /\ UNCHANGED << data, min_date, max_date, typed, start_date, end_date, printed,
                    filtered_data, results_df, chart_inputs, charts, sim >>

\* lines 171-172: the table is sorted, then the deviation column is added
Rank ==
    /\ pc = "Compared"
    /\ \E tie \in TieOrders : results_df' = WithDeviation(SortValues(results, tie))
    /\ pc' = "Ranked"
    /\ UNCHANGED << data, min_date, max_date, typed, start_date, end_date, printed,
                    filtered_data, results, chart_inputs, charts, sim >>

\* line 178: visualize_bar_chart(results_df)
BarChart ==
    /\ pc = "Ranked"
    /\ chart_inputs' = Append(chart_inputs, results_df)
    /\ charts' = Append(charts, visualize_bar_chart(results_df))
    /\ pc' = "Charted"
    /\ UNCHANGED << data, min_date, max_date, typed, start_date, end_date, printed,
                    filtered_data, results, results_df, sim >>

\* line 181: visualize_filtered_bar_chart(results_df)
FilteredBarChart ==
    /\ pc = "Charted"
    /\ LET filtered_results == ExcludeWeekly(results_df)
       IN  /\ chart_inputs' = Append(chart_inputs, filtered_results)
           /\ charts' = Append(charts, visualize_bar_chart(filtered_results))
    /\ pc' = "Done"
    /\ UNCHANGED << data, min_date, max_date, typed, start_date, end_date, printed,
                    filtered_data, results, results_df, sim >>

Next ==
    \/ \E s \in Inputs, e \in Inputs : Attempt(s, e)
    \/ Filter
    \/ CompareWeekly
    \/ CompareDaily
    \/ CompareHourly
    \/ Rank
    \/ BarChart
    \/ FilteredBarChart

Spec == Init /\ [][Next]_vars

----------------------------------------------------------------------------
(* The simulators called on their own, with any amount.                    *)

\* the largest of the small amounts tried
MaxAmount == 3

Amounts == (1..MaxAmount) \cup {Amount}

\* the longest file the simulators are called on: Series.sum() adds fewer
\* than 8 values one after the other, in row order
MaxSimRows == 7

SimInit ==
    /\ \E file \in {f \in CsvFiles : Len(f) <= MaxSimRows} :
          /\ data = prepare_data(file) \o <<>>
          /\ min_date = IndexMin(prepare_data(file))
          /\ max_date = IndexMax(prepare_data(file))
    /\ pc = "Simulators"
    /\ typed = <<"", "">>
    /\ start_date = Text("")
    /\ end_date = Text("")
    /\ printed = ""
    /\ filtered_data = <<>>
    /\ results = <<>>
    /\ results_df = <<>>
    /\ chart_inputs = <<>>
    /\ charts = <<>>
    /\ sim = NoSim

Called(fn, amount, r) ==
    /\ pc = "Simulators"
    /\ sim' = [fn |-> fn, amount |-> amount, rows |-> r.purchases, avg_price |-> r.avg_price]
    /\ UNCHANGED << pc, data, min_date, max_date, typed, start_date, end_date, printed,
                    filtered_data, results, results_df, chart_inputs, charts >>

CallHourly(amount) == Called("simulate_hourly_dca", amount, simulate_hourly_dca(data, amount))

CallDaily(hour, amount) ==
    Called("simulate_daily_dca", amount, simulate_daily_dca(data, hour, amount))

CallWeekly(weekday, hour, amount) ==
    Called("simulate_weekly_dca", amount, simulate_weekly_dca(data, weekday, hour, amount))

SimNext ==
    \/ \E a \in Amounts : CallHourly(a)
    \/ \E h \in Hours, a \in Amounts : CallDaily(h, a)
    \/ \E d \in Weekdays, h \in Hours, a \in Amounts : CallWeekly(d, h, a)

SimSpec == SimInit /\ [][SimNext]_vars

----------------------------------------------------------------------------
(* Properties.                                                             *)

AfterReady  == {"Ready", "Weekly", "Daily", "Hourly", "Compared", "Ranked", "Charted", "Done"}
AfterFilter == AfterReady \ {"Ready"}
AfterRank   == {"Ranked", "Charted", "Done"}

\* row r of the data is one of the rows of the table t
RowIn(r, t) == \E k \in 1..Len(t) : t[k] = r

Hundred == FFromInt(100)

\* C1: the driver is past the prompt loop only with a typed pair of which
\* both texts parse as dates, both dates lie between the first and the last
\* timestamp of the data, and the start is not after the end; start_date and
\* end_date then hold those dates.
C1_ReadyOnlyWithValidRange ==
    pc \in AfterReady =>
        LET ps == Strptime(typed[1])
            pe == Strptime(typed[2])
        IN  /\ ps.ok /\ pe.ok
            /\ start_date = Date(ps.ts) /\ end_date = Date(pe.ts)
            /\ min_date <= ps.ts /\ ps.ts <= max_date
            /\ min_date <= pe.ts /\ pe.ts <= max_date
            /\ ps.ts <= pe.ts

C1_Witness ==
    /\ pc = "Ready"
    /\ start_date.parsed /\ end_date.parsed
    /\ start_date.ts < end_date.ts

\* the typed pair is one the loop accepts
TypedValid ==
    LET ps == Strptime(typed[1])
        pe == Strptime(typed[2])
    IN  /\ ps.ok /\ pe.ok
        /\ min_date <= ps.ts /\ ps.ts <= max_date
        /\ min_date <= pe.ts /\ pe.ts <= max_date
        /\ ps.ts <= pe.ts

\* C2: an attempt with a text that is no date, a date outside the data or a
\* start after the end leaves the driver in AwaitingValidInput with a
\* diagnostic printed, whatever was typed before.
C2_InvalidAttemptReprompts ==
    [][ (pc = "AwaitingValidInput" /\ ~TypedValid')
            => (pc' = "AwaitingValidInput" /\ printed' \in {RangeMessage, FormatMessage}) ]_vars

\* a second invalid attempt in a row: an inverted range after a diagnostic
C2_Witness ==
    /\ pc = "AwaitingValidInput"
    /\ printed = RangeMessage
    /\ start_date.parsed /\ end_date.parsed
    /\ start_date.ts > end_date.ts

\* the loaded series is 48 consecutive hours with every Open 100
Is48hConstant ==
    /\ Len(data) = 48
    /\ \A i \in 1..Len(data) :
          /\ data[i].Open = Hundred
          /\ data[i].Timestamp = data[1].Timestamp + (i - 1)

\* the rows of the filtered data that the strategy of a label buys at
MatchesRow(label) ==
    \E k \in 1..Len(filtered_data) :
        LET ts == filtered_data[k].Timestamp
        IN  \/ label = HourlyLabel
            \/ label = DailyLabel(HourOf(ts))
            \/ label = WeeklyLabel(DayOfWeek(ts), HourOf(ts))

\* C3 as claimed: on the 48-hour series of constant price 100, all 193
\* strategies have an average price of exactly 100 and a deviation of 0.
C3_AllStrategiesExactly100 ==
    (Is48hConstant /\ pc \in AfterRank) =>
        /\ Len(results_df) = 193
        /\ \A i \in 1..Len(results_df) :
              /\ results_df[i].Avg_Price = Hundred
              /\ results_df[i].Relative_Deviation = FZero

\* C3 (amended): on the 48-hour series of constant price 100, every strategy
\* that buys at one row or more of the filtered data has an average price of
\* exactly 100 and a deviation of exactly 0; every other strategy has NaN for
\* both.
C3_MatchedStrategiesExactly100 ==
    (Is48hConstant /\ pc \in AfterRank) =>
        /\ Len(results_df) = 193
        /\ \A i \in 1..Len(results_df) :
              IF MatchesRow(results_df[i].Strategy)
              THEN /\ results_df[i].Avg_Price = Hundred
                   /\ results_df[i].Relative_Deviation = FZero
              ELSE /\ IsNaN(results_df[i].Avg_Price)
                   /\ IsNaN(results_df[i].Relative_Deviation)

C3_Witness ==
    /\ Is48hConstant /\ pc = "Ranked"
    /\ Len(filtered_data) > 1
    /\ \E i \in 1..Len(results_df) : results_df[i].Avg_Price = Hundred
    /\ \E i \in 1..Len(results_df) : IsNaN(results_df[i].Avg_Price)

\* C4: a row of the data whose timestamp is the start date or the end date
\* is in the filtered data.
C4_BoundaryRowsIncluded ==
    pc \in AfterFilter =>
        \A i \in 1..Len(data) :
            data[i].Timestamp \in {start_date.ts, end_date.ts} => RowIn(data[i], filtered_data)

C4_Witness ==
    /\ pc = "Weekly"
    /\ start_date.ts < end_date.ts
    /\ \E i, j \in 1..Len(filtered_data) :
          /\ filtered_data[i].Timestamp = start_date.ts
          /\ filtered_data[j].Timestamp = end_date.ts

\* C5 as claimed: the first row of the ranked table has deviation 0.
C5_BestDeviationZero ==
    pc \in AfterRank => results_df[1].Relative_Deviation = FZero

\* C5 (amended): the first row of the ranked table has deviation exactly 0
\* when the filtered data has a row; when it has none, every strategy buys
\* nothing and every deviation, the first included, is NaN.
C5_BestDeviationZeroUnlessEmpty ==
    pc \in AfterRank =>
        IF filtered_data # <<>>
        THEN results_df[1].Relative_Deviation = FZero
        ELSE \A i \in 1..Len(results_df) : IsNaN(results_df[i].Relative_Deviation)

C5_Witness ==
    /\ pc = "Ranked"
    /\ filtered_data # <<>>
    /\ results_df[1].Relative_Deviation = FZero
    /\ \E i \in 1..Len(results_df) : FLt(FZero, results_df[i].Relative_Deviation)
    /\ \E i \in 1..Len(results_df) : IsNaN(results_df[i].Avg_Price)

\* C6 as claimed: the deviation does not decrease from a row of the ranked
\* table to the next.
C6_DeviationNonDecreasing ==
    pc \in AfterRank =>
        \A i \in 1..(Len(results_df) - 1) :
            FLe(results_df[i].Relative_Deviation, results_df[i + 1].Relative_Deviation)

\* C6 (amended): from a row of the ranked table to the next, the deviation
\* does not decrease when both average prices are numbers; the rows whose
\* average price is NaN come after all the others and their deviation is NaN.
C6_DeviationNonDecreasingAmongNumbers ==
    pc \in AfterRank =>
        \A i \in 1..(Len(results_df) - 1) :
            LET r == results_df[i]
                n == results_df[i + 1]
            IN  /\ (~IsNaN(r.Avg_Price) /\ ~IsNaN(n.Avg_Price))
                       => /\ FLe(r.Avg_Price, n.Avg_Price)
                          /\ FLe(r.Relative_Deviation, n.Relative_Deviation)
                /\ IsNaN(r.Avg_Price) => IsNaN(n.Avg_Price)
                /\ IsNaN(n.Avg_Price) => IsNaN(n.Relative_Deviation)

C6_Witness ==
    /\ pc = "Ranked"
    /\ \E i \in 1..(Len(results_df) - 1) :
          /\ FLt(results_df[i].Relative_Deviation, results_df[i + 1].Relative_Deviation)
          /\ FLt(FZero, results_df[i].Relative_Deviation)

\* the rows of results with a label
Labelled(label) == {i \in 1..Len(results) : results[i].Strategy = label}

\* C7: the comparator records 193 results: for each weekday 0..6 and hour
\* 0..23 one weekly result, for each hour 0..23 one daily result, and one
\* hourly result, each the simulator's average price on the filtered data
\* with amount 100.
C7_AllStrategiesOnce ==
    pc = "Compared" =>
        /\ Len(results) = 193
        /\ \A d \in 0..6, h \in 0..23 :
              /\ Cardinality(Labelled(WeeklyLabel(d, h))) = 1
              /\ \A i \in Labelled(WeeklyLabel(d, h)) :
                    results[i].Avg_Price =
                        simulate_weekly_dca(filtered_data, d, h, 100).avg_price
        /\ \A h \in 0..23 :
              /\ Cardinality(Labelled(DailyLabel(h))) = 1
              /\ \A i \in Labelled(DailyLabel(h)) :
                    results[i].Avg_Price = simulate_daily_dca(filtered_data, h, 100).avg_price
        /\ Cardinality(Labelled(HourlyLabel)) = 1
        /\ \A i \in Labelled(HourlyLabel) :
              results[i].Avg_Price = simulate_hourly_dca(filtered_data, 100).avg_price

C7_Witness ==
    /\ pc = "Compared"
    /\ Len(results) = 193
    /\ \E i, j \in 1..Len(results) :
          /\ ~IsNaN(results[i].Avg_Price) /\ ~IsNaN(results[j].Avg_Price)
          /\ results[i].Avg_Price # results[j].Avg_Price

\* where the strategy of row i of table t stands in the ranked table
RankOf(t, i) == CHOOSE k \in 1..Len(results_df) : results_df[k].Strategy = t[i].Strategy

\* C8: the table visualize_filtered_bar_chart hands to the bar chart has no
\* weekly label and 168 rows fewer than the ranked table: the 24 daily rows
\* and the hourly row, in the order of the ranked table; the deviation drawn
\* is taken from the least average price of these rows.
C8_FilteredChartWithoutWeekly ==
    pc = "Done" =>
        LET cand  == chart_inputs[2]
            shown == charts[2]
            least == SeriesMin([i \in 1..Len(cand) |-> cand[i].Avg_Price] \o <<>>)
        IN  /\ \A i \in 1..Len(cand) : ~StartsWith(cand[i].Strategy, "Weekly")
            /\ Len(cand) = Len(results_df) - 168
            /\ {cand[i].Strategy : i \in 1..Len(cand)}
                  = {DailyLabel(h) : h \in 0..23} \cup {HourlyLabel}
            /\ \A i \in 1..Len(cand) : RowIn(cand[i], results_df)
            /\ \A i \in 1..(Len(cand) - 1) : RankOf(cand, i) < RankOf(cand, i + 1)
            /\ Len(shown) = Len(cand)
            /\ \A i \in 1..Len(shown) :
                  /\ shown[i].Strategy = cand[i].Strategy
                  /\ shown[i].Relative_Deviation = Deviation(cand[i].Avg_Price, least)

\* the best of all strategies is a weekly one: the first bar of the
\* filtered chart is at 0 though its row of the ranked table is not
C8_Witness ==
    /\ pc = "Done"
    /\ charts[2][1].Relative_Deviation = FZero
    /\ FLt(FZero, chart_inputs[2][1].Relative_Deviation)

\* a positive integer double as a natural number
RECURSIVE BToInt(_, _)
BToInt(a, n) == IF n = 0 THEN 0 ELSE 2 * BToInt(a, n - 1) + a[n]
IntOf(x) == BToInt(BShl(x.m, x.e), Len(x.m) + x.e)

\* the product of the Open prices of rows 1..n, and the sum over these rows of
\* that product divided by the row's price: n / sum(1 / p_i) is
\* n * PriceProduct / PriceQuotients
RECURSIVE PriceProduct(_, _)
PriceProduct(rows, n) ==
    IF n = 0 THEN 1 ELSE PriceProduct(rows, n - 1) * IntOf(rows[n].Open)
RECURSIVE PriceQuotients(_, _, _)
PriceQuotients(rows, n, prod) ==
    IF n = 0 THEN 0 ELSE PriceQuotients(rows, n - 1, prod) + prod \div IntOf(rows[n].Open)

\* |x - num / den| <= (num / den) * ulps * 2^(-52), for a positive double x
\* and natural numbers num, den
WithinRounding(x, num, den, ulps) ==
    LET up   == Max(x.e, 0)
        down == Max(-x.e, 0)
        a    == BShl(BMul(x.m, BFromInt(den)), up)
        b    == BShl(BFromInt(num), down)
        diff == IF BCmp(a, b) >= 0 THEN BSub(a, b) ELSE BSub(b, a)
    IN  BCmp(BShl(diff, Precision - 1),
             BShl(BMul(BFromInt(num), BFromInt(ulps)), down)) <= 0

\* n / sum(1 / p_i) over the rows, evaluated in float64
HarmonicFloat(rows) ==
    FDiv(FFromInt(Len(rows)),
         SumFloat([i \in 1..Len(rows) |-> FDiv(FFromInt(1), rows[i].Open)], Len(rows)))

C10_MidnightSliceBounds ==
    /\ pc \in AfterReady =>
          /\ HourOf(start_date.ts) = 0 /\ HourOf(end_date.ts) = 0
          /\ start_date.ts = Strptime(typed[1]).ts /\ end_date.ts = Strptime(typed[2]).ts
          /\ DateOf(start_date.ts) = DateOf(min_date) => HourOf(min_date) = 0
    /\ pc \in AfterFilter =>
          /\ \A i \in 1..Len(data) :
                RowIn(data[i], filtered_data)
                    <=> (start_date.ts <= data[i].Timestamp /\ data[i].Timestamp <= end_date.ts)
          /\ \A k \in 1..Len(filtered_data) : RowIn(filtered_data[k], data)
          /\ \A i \in 1..Len(data) :
                (DateOf(data[i].Timestamp) = DateOf(end_date.ts) /\ HourOf(data[i].Timestamp) > 0)
                    => ~RowIn(data[i], filtered_data)

\* a row of the end date, later than 00:00, left out of a slice that has rows
C10_Witness ==
    /\ pc = "Weekly"
    /\ filtered_data # <<>>
    /\ \E i \in 1..Len(data) :
          /\ DateOf(data[i].Timestamp) = DateOf(end_date.ts)
          /\ HourOf(data[i].Timestamp) > 0
          /\ ~RowIn(data[i], filtered_data)

====
